---- MODULE Spec2Model ----
(***************************************************************************)
(* The DWARF section reader of plugins/dwarf/shared/src/lib.rs             *)
(* (create_section_reader) against a loaded image: the image's named       *)
(* sections, symbols, data variables and bytes, and the reader's lookup,   *)
(* compression detection, decompression dispatch and raw pass-through;     *)
(* and the DWARF validation predicates of the same file; and, of the       *)
(* binding (rust/src/binary_view.rs, rust/src/debuginfo.rs), read_vec,     *)
(* analysis_info, the linear-disassembly line getters and the callbacks    *)
(* registered with the host.                                               *)
(*                                                                         *)
(* Specifications: Spec (calls of the reader and of get_endian on every    *)
(* image), PredSpec (the predicates on images with and without a Raw       *)
(* view), OwnSpec (the image changes while a returned buffer is held),     *)
(* ConcSpec (concurrent calls of the reader, step by step), ShortSpec (the *)
(* reader on images whose reads come back short), AnalysisSpec             *)
(* (analysis_info), CallbackSpec (registered callbacks and the host's      *)
(* reference counts), CursorSpec (the line getters on one cursor).         *)
(*                                                                         *)
(* Integers of the program (u32, u64, usize) are kept exact:               *)
(*   - a decoded u32/u64 field is its big-endian digit string (most        *)
(*     significant byte first), so two fields are equal iff their digit    *)
(*     strings are equal and no value is ever truncated;                   *)
(*   - a usize length that wrapped below zero is the negative integer n    *)
(*     standing for 2^64 + n.                                              *)
(***************************************************************************)
EXTENDS Integers, Sequences, FiniteSets, TLC

(***************************************************************************)
(* Bounds of the model.                                                    *)
(***************************************************************************)
\* most sections an image holds
MaxSections == 2
\* most full header records in the section-header side table
MaxRecords == 2
\* bytes of a compressed payload (one magic byte and the packed bytes)
MaxPayload == 3
\* address of the first section (not 0: a zero address field matches nothing)
BaseAddress == 16
\* concurrent calls of create_section_reader
MaxCallers == 2
\* active-analysis records the host reports at most
MaxActive == 2
\* callbacks registered with the host at most
MaxRegistrations == 2
\* references the host holds on each object it hands to a callback
HostRefs == 3
\* positions of a linear view
MaxPositions == 3

VARIABLES
    address_size,    \* BNGetViewAddressSize: 4 or 8
    default_endianness, \* BNGetDefaultEndianness: "LittleEndian" or "BigEndian"
    sections,        \* set of [name, start, len]: the image's sections
    symbols,         \* sequence of [full_name, address]
    data_variables,  \* sequence of [address, width, element_width]
    memory,          \* the image's bytes, address a at memory[a + 1]
    raw_view,        \* the file's view of type "Raw": a set of at most one [sections]
    settings,        \* the host's value of network.enableDebuginfod, per scope
    pc,              \* "idle" before any call, "returned" after one
    args,            \* the last call's [section_id, endian, dwo_file]
    ret,             \* the last call's outcome
    reads,           \* the raw reads the last call issued, in order
    probe,           \* the last call's locals: section_name, section, compressed
    storage,         \* where the bytes of the returned buffer live
    history,         \* for each predicate, the values its calls have returned
    callers,         \* the locals of each concurrent call, step by step
    refcount,        \* the host's reference count of each object it hands to a callback
    registry,        \* the callbacks registered with the host, with their context boxes
    cursor,          \* a LinearViewCursor: the view's line lists and where the cursor is
    analysis         \* what BNGetAnalysisInfo returns: a set of at most one info record

view == <<address_size, default_endianness, sections, symbols, data_variables, memory>>
file == <<raw_view, settings>>
ffi == <<refcount, registry, cursor, analysis>>
vars == <<address_size, default_endianness, sections, symbols, data_variables, memory,
          raw_view, settings, pc, args, ret, reads, probe, storage, history, callers,
          refcount, registry, cursor, analysis>>

(***************************************************************************)
(* Byte strings and integers.                                              *)
(***************************************************************************)
Zeros(n) == [i \in 1..n |-> 0]

Reverse(s) == [i \in 1..Len(s) |-> s[Len(s) + 1 - i]]

\* the digit of weight 256^k of v (v is below 2^31 in every use)
Digit(v, k) == IF k >= 4 THEN 0 ELSE (v \div (256 ^ k)) % 256

\* v as n big-endian digits
ToDigits(v, n) == [i \in 1..n |-> Digit(v, n - i)]

u64(v) == ToDigits(v, 8)

Endians == {"Little", "Big"}

\* the bytes of v in an n-byte field of the given byte order
Encode(endian, v, n) ==
    IF endian = "Big" THEN ToDigits(v, n) ELSE Reverse(ToDigits(v, n))

(***************************************************************************)
(* Section names.  A name is the sequence of its pieces, the first piece   *)
(* being its first character, so that &name[1..] is Tail(name).            *)
(***************************************************************************)
SectionIds == {"DebugInfo", "DebugFrame"}

\* gimli::SectionId::name
name(section_id) ==
    IF section_id = "DebugInfo" THEN <<".", "debug_info">>
    ELSE <<".", "debug_frame">>

\* gimli::SectionId::dwo_name: a set, empty for an identifier with no DWO name
dwo_name(section_id) ==
    IF section_id = "DebugInfo" THEN {<<".", "debug_info", ".dwo">>} ELSE {}

\* (mutant of PrefixedName: the first character is kept)
PrefixedNameNoStrip(section_name) == <<"_", "_">> \o section_name

\* "__".to_string() + &section_name[1..]
PrefixedName(section_name) == <<"_", "_">> \o Tail(section_name)

\* (mutant of SectionName: dwo_file is ignored)
SectionNameIgnoringDwo(section_id, dwo_file) == name(section_id)

\* let section_name = if dwo_file && section_id.dwo_name().is_some() {..} else {..}
SectionName(section_id, dwo_file) ==
    IF dwo_file /\ dwo_name(section_id) # {}
    THEN CHOOSE n \in dwo_name(section_id) : TRUE
    ELSE name(section_id)

(***************************************************************************)
(* The host's image, as the binding reads it.  An Option is a set with at  *)
(* most one element.                                                       *)
(***************************************************************************)
\* BinaryViewExt::section_by_name
section_by_name(section_name) == {s \in sections : s.name = section_name}

\* view.symbols().iter().find(|symbol| symbol.full_name() == "__elf_section_headers")
FindSymbol ==
    LET hits == {i \in 1..Len(symbols) : symbols[i].full_name = "__elf_section_headers"}
    IN  IF hits = {} THEN {}
        ELSE {symbols[CHOOSE i \in hits : \A j \in hits : i <= j]}

\* (mutant of FindDataVariable: the first data variable, at whatever address)
FindDataVariableAnywhere(symbol) ==
    IF Len(data_variables) = 0 THEN {} ELSE {data_variables[1]}

\* view.data_variables().iter().find(|var| var.address == symbol.address())
FindDataVariable(symbol) ==
    LET hits == {i \in 1..Len(data_variables) : data_variables[i].address = symbol.address}
    IN  IF hits = {} THEN {}
        ELSE {data_variables[CHOOSE i \in hits : \A j \in hits : i <= j]}

\* BNReadViewData: the bytes of [offset, offset + len) that the image holds.
\* A negative len is a wrapped usize: the read runs to the end of the image.
ReadViewData(offset, len) ==
    LET last == IF len < 0 \/ offset + len > Len(memory) THEN Len(memory) ELSE offset + len
    IN  IF offset >= last THEN <<>> ELSE SubSeq(memory, offset + 1, last)

\* (mutant of read_vec: the vector keeps its length; the bytes the read did
\* not produce stay zero)
read_vec_NoTruncate(offset, len) ==
    LET buf == Zeros(len)
        got == ReadViewData(offset, len)
        size == Len(got)
    IN  got \o SubSeq(buf, size + 1, len)

\* BinaryViewExt::read_vec: vec![0; len], read into it, truncate to the
\* number of bytes read
read_vec(offset, len) ==
    LET buf == Zeros(len)
        got == ReadViewData(offset, len)
        size == Len(got)
        filled == got \o SubSeq(buf, size + 1, len)
    IN  SubSeq(filled, 1, size)

\* Endianity::read_u32 / read_u64 of a slice of exactly that width, as digits
ReadUInt(endian, buf) == IF endian = "Big" THEN buf ELSE Reverse(buf)

\* `x as u64` of a u32
AsU64(digits) == Zeros(8 - Len(digits)) \o digits

\* (section_flags & 2048) != 0: bit 3 of the digit of weight 256
CompressedBit(flags) == (flags[Len(flags) - 1] \div 8) % 2 = 1

(***************************************************************************)
(* DWARF validation, lines 40-90: the presence predicates, the debuginfod  *)
(* gate and the byte order.                                                *)
(***************************************************************************)
\* raw_view.section_by_name: the lookup in the sections of the Raw view
raw_section_by_name(raw, section_name) == {s \in raw.sections : s.name = section_name}

\* (mutant of is_non_dwo_dwarf: the "__" name is not looked up)
is_non_dwo_dwarf_CanonicalOnly == section_by_name(<<".", "debug_info">>) # {}

\* lines 40-42
is_non_dwo_dwarf ==
    \/ section_by_name(<<".", "debug_info">>) # {}
    \/ section_by_name(<<"_", "_", "debug_info">>) # {}

\* lines 44-46
is_dwo_dwarf == section_by_name(<<".", "debug_info", ".dwo">>) # {}

\* (mutant of is_raw_non_dwo_dwarf: the image's sections stand in for a
\* missing Raw view)
is_raw_non_dwo_dwarf_Unguarded ==
    \/ \E raw \in raw_view : raw_section_by_name(raw, <<".", "debug_info">>) # {}
    \/ section_by_name(<<"_", "_", "debug_info">>) # {}

\* lines 48-55: the first name is looked up in the Raw view, the second in
\* the view the function was given
is_raw_non_dwo_dwarf ==
    IF raw_view # {}
    THEN LET raw == CHOOSE r \in raw_view : TRUE
         IN  \/ raw_section_by_name(raw, <<".", "debug_info">>) # {}
             \/ section_by_name(<<"_", "_", "debug_info">>) # {}
    ELSE FALSE

\* lines 57-63
is_raw_dwo_dwarf ==
    IF raw_view # {}
    THEN LET raw == CHOOSE r \in raw_view : TRUE
         IN  raw_section_by_name(raw, <<".", "debug_info", ".dwo">>) # {}
    ELSE FALSE

\* lines 71-76
has_build_id_section ==
    IF raw_view # {}
    THEN LET raw == CHOOSE r \in raw_view : TRUE
         IN  raw_section_by_name(raw, <<".", "note.gnu.build-id">>) # {}
    ELSE FALSE

\* QueryOptions::new_with_view: a query scoped to the view
new_with_view == [scope |-> "view"]

\* Settings::get_bool_with_opts: the value set for the query's scope, the
\* default where that scope sets none
get_bool_with_opts(key, query_options) ==
    IF query_options.scope = "view" /\ settings[key].view # {}
    THEN CHOOSE b \in settings[key].view : TRUE
    ELSE settings[key].default

\* (mutant of can_use_debuginfod: the build-id section is not required)
can_use_debuginfod_SettingOnly ==
    get_bool_with_opts("network.enableDebuginfod", new_with_view)

\* lines 65-69
can_use_debuginfod ==
    LET query_options == new_with_view
    IN  has_build_id_section
            /\ get_bool_with_opts("network.enableDebuginfod", query_options)

\* (mutant of is_valid: the raw split predicate is left out)
is_valid_WithoutRawDwo == is_non_dwo_dwarf \/ is_raw_non_dwo_dwarf \/ is_dwo_dwarf

\* lines 78-83
is_valid == is_non_dwo_dwarf \/ is_raw_non_dwo_dwarf \/ is_dwo_dwarf \/ is_raw_dwo_dwarf

\* lines 85-90
get_endian == IF default_endianness = "LittleEndian" THEN "Little" ELSE "Big"

(***************************************************************************)
(* The decoders.  zlib and zstd are libraries outside the repository; each *)
(* is a partial function of the payload, here a small stand-in with its    *)
(* own magic byte and its own transformation, so that the two differ from  *)
(* each other and from the identity.                                       *)
(***************************************************************************)
ZlibMagic == 120
ZstdMagic == 40

ZlibValid(payload) == Len(payload) >= 2 /\ payload[1] = ZlibMagic

\* the inflation of a valid payload: each packed byte complemented
ZlibInflate(payload) == [i \in 1..(Len(payload) - 1) |-> 255 - payload[i + 1]]

ZstdValid(payload) == Len(payload) >= 2 /\ payload[1] = ZstdMagic

\* the decoding of a valid payload: the packed bytes in reverse order
ZstdDecode(payload) == [i \in 1..(Len(payload) - 1) |-> payload[Len(payload) + 1 - i]]

\* DataBuffer::zlib_decompress().get_data(): the inflated bytes; a payload the
\* decoder rejects gives a buffer with no contents, never an error
zlib_decompress(buffer) == IF ZlibValid(buffer) THEN ZlibInflate(buffer) ELSE <<>>

(***************************************************************************)
(* Outcomes of a call: Ok(EndianRcSlice), Err(Error), or a panic at a      *)
(* source line.                                                            *)
(***************************************************************************)
Ok(data, endian) ==
    [kind |-> "Ok", data |-> data, tag |-> <<>>, endian |-> endian, line |-> 0]

UnknownCompressionMethod(x) ==
    [kind |-> "UnknownCompressionMethod", data |-> <<>>, tag |-> x,
     endian |-> "none", line |-> 0]

IoError ==
    [kind |-> "IoError", data |-> <<>>, tag |-> <<>>, endian |-> "none", line |-> 0]

Panic(line) ==
    [kind |-> "Panic", data |-> <<>>, tag |-> <<>>, endian |-> "none", line |-> line]

NoReturn ==
    [kind |-> "None", data |-> <<>>, tag |-> <<>>, endian |-> "none", line |-> 0]

\* one raw read issued against the image
ReadCall(op, offset, len) == [op |-> op, offset |-> offset, len |-> len, ok |-> TRUE]

\* what a path of the reader produces: the outcome, the reads issued so far,
\* and whether the compression bit was found set
Done(r, rd, compressed) == [ret |-> r, reads |-> rd, compressed |-> compressed]

(***************************************************************************)
(* create_section_reader, lines 92-188.                                    *)
(***************************************************************************)
\* (mutant of AbsentSection: a missing section is an error)
AbsentSectionAsError(endian) == Done(IoError, <<>>, FALSE)

\* lines 185-187: no section under either name
AbsentSection(endian) == Done(Ok(<<>>, endian), <<>>, FALSE)

\* lines 180-184: the section under the "__" name, read raw
PrefixedSection(section, endian) ==
    Done(Ok(read_vec(section.start, section.len), endian),
         <<ReadCall("read_vec", section.start, section.len)>>, FALSE)

\* lines 170-179: the section's raw bytes, no read for an empty section
RawSection(section, endian, rd, compressed) ==
    IF section.len = 0 THEN Done(Ok(<<>>, endian), rd, compressed)
    ELSE Done(Ok(read_vec(section.start, section.len), endian),
              Append(rd, ReadCall("read_vec", section.start, section.len)), compressed)

\* lines 148-164: dispatch on the method tag
Dispatch(ch_type, buffer, endian) ==
    IF ch_type = ToDigits(1, 4) THEN Ok(zlib_decompress(buffer), endian)
    ELSE IF ch_type = ToDigits(2, 4)
         THEN IF ZstdValid(buffer) THEN Ok(ZstdDecode(buffer), endian) ELSE IoError
    ELSE UnknownCompressionMethod(ch_type)

\* (mutant of Decompress: a failed buffer read is reported as an I/O error)
Decompress_FailingOnNull(section, endian, rd, host_null, overflow_checks) ==
    LET compressed_header_size == address_size * 3
        offset == section.start + compressed_header_size
        len == section.len - compressed_header_size
        ch_type_vec == read_vec(section.start, 4)
        rd1 == Append(rd, ReadCall("read_vec", section.start, 4))
        rd2 == Append(rd1, [ReadCall("read_buffer", offset, len) EXCEPT !.ok = ~host_null])
    IN  IF len < 0 /\ overflow_checks THEN Done(Panic(142), rd, TRUE)
        ELSE IF Len(ch_type_vec) < 4 THEN Done(Panic(145), rd1, TRUE)
        ELSE IF host_null THEN Done(IoError, rd2, TRUE)
        ELSE Done(Dispatch(ReadUInt(endian, ch_type_vec),
                           ReadViewData(offset, len), endian), rd2, TRUE)

\* lines 139-166: the compression bit is set.  host_null: BNReadViewBuffer
\* returns null; overflow_checks: the build panics on integer overflow.
Decompress(section, endian, rd, host_null, overflow_checks) ==
    LET compressed_header_size == address_size * 3
        offset == section.start + compressed_header_size
        len == section.len - compressed_header_size
        ch_type_vec == read_vec(section.start, 4)
        rd1 == Append(rd, ReadCall("read_vec", section.start, 4))
        rd2 == Append(rd1, [ReadCall("read_buffer", offset, len) EXCEPT !.ok = ~host_null])
    IN  IF len < 0 /\ overflow_checks THEN Done(Panic(142), rd, TRUE)
        ELSE IF Len(ch_type_vec) < 4 THEN Done(Panic(145), rd1, TRUE)
        ELSE IF host_null THEN RawSection(section, endian, rd2, TRUE)
        ELSE Done(Dispatch(ReadUInt(endian, ch_type_vec),
                           ReadViewData(offset, len), endian), rd2, TRUE)

\* data.chunks(width): consecutive records, the last one possibly shorter
RECURSIVE Chunks(_, _)
Chunks(data, width) ==
    IF Len(data) = 0 THEN <<>>
    ELSE IF Len(data) <= width THEN <<data>>
    ELSE <<SubSeq(data, 1, width)>> \o Chunks(SubSeq(data, width + 1, Len(data)), width)

\* lines 124-128: the closure of find, on a record long enough to index
HeaderMatches(section_header, section, endian) ==
    IF address_size = 4
    THEN AsU64(ReadUInt(endian, SubSeq(section_header, 17, 20))) = u64(section.start)
    ELSE ReadUInt(endian, SubSeq(section_header, 25, 32)) = u64(section.start)

\* the bytes of a record the closure indexes: [16..20] or [24..32]
IndexedWidth == IF address_size = 4 THEN 20 ELSE 32

\* lines 121-129: .find over the records, in order.  The closure panics on a
\* record shorter than the bytes it indexes, unless a match came first.
RECURSIVE FindHeader(_, _, _)
FindHeader(chunks, section, endian) ==
    IF Len(chunks) = 0 THEN [panic |-> FALSE, header |-> {}]
    ELSE IF Len(Head(chunks)) < IndexedWidth THEN [panic |-> TRUE, header |-> {}]
    ELSE IF HeaderMatches(Head(chunks), section, endian)
         THEN [panic |-> FALSE, header |-> {Head(chunks)}]
    ELSE FindHeader(Tail(chunks), section, endian)

\* (mutant of section_flags: the flags are read little-endian whatever the
\* byte order of the call)
section_flags_LittleEndian(current_section_header, endian) ==
    IF address_size = 4
    THEN AsU64(ReadUInt("Little", SubSeq(current_section_header, 9, 12)))
    ELSE ReadUInt("Little", SubSeq(current_section_header, 9, 16))

\* lines 131-135
section_flags(current_section_header, endian) ==
    IF address_size = 4
    THEN AsU64(ReadUInt(endian, SubSeq(current_section_header, 9, 12)))
    ELSE ReadUInt(endian, SubSeq(current_section_header, 9, 16))

\* the element type's width when the data variable's type has none
NoElementType == -1

\* lines 117-169: compression detection on the data variable of the side table
Detect(data_var, section, endian, host_null, overflow_checks) ==
    LET data == read_vec(data_var.address, data_var.width)
        rd == <<ReadCall("read_vec", data_var.address, data_var.width)>>
    IN  IF data_var.element_width = NoElementType THEN Done(Panic(119), rd, FALSE)
        ELSE IF data_var.element_width = 0 THEN Done(Panic(122), rd, FALSE)
        ELSE LET found == FindHeader(Chunks(data, data_var.element_width), section, endian)
             IN  IF found.panic THEN Done(Panic(125), rd, FALSE)
                 ELSE IF found.header = {} THEN RawSection(section, endian, rd, FALSE)
                 ELSE IF CompressedBit(section_flags(CHOOSE h \in found.header : TRUE, endian))
                      THEN Decompress(section, endian, rd, host_null, overflow_checks)
                 ELSE RawSection(section, endian, rd, FALSE)

\* lines 104-179: the section under the looked-up name
ExactSection(section, endian, host_null, overflow_checks) ==
    LET symbol == FindSymbol
    IN  IF symbol = {} THEN RawSection(section, endian, <<>>, FALSE)
        ELSE LET data_var == FindDataVariable(CHOOSE y \in symbol : TRUE)
             IN  IF data_var = {} THEN RawSection(section, endian, <<>>, FALSE)
                 ELSE Detect(CHOOSE v \in data_var : TRUE, section, endian,
                             host_null, overflow_checks)

\* (mutant of Lookup: the "__" name is tried first)
LookupPrefixedFirst(section_name) ==
    IF section_by_name(PrefixedName(section_name)) # {}
    THEN [path |-> "prefixed", section |-> section_by_name(PrefixedName(section_name))]
    ELSE IF section_by_name(section_name) # {}
    THEN [path |-> "exact", section |-> section_by_name(section_name)]
    ELSE [path |-> "absent", section |-> {}]

\* lines 104, 180, 185: the looked-up name, then its "__" name, then absent
Lookup(section_name) ==
    IF section_by_name(section_name) # {}
    THEN [path |-> "exact", section |-> section_by_name(section_name)]
    ELSE IF section_by_name(PrefixedName(section_name)) # {}
    THEN [path |-> "prefixed", section |-> section_by_name(PrefixedName(section_name))]
    ELSE [path |-> "absent", section |-> {}]

create_section_reader(section_id, endian, dwo_file, host_null, overflow_checks) ==
    LET section_name == SectionName(section_id, dwo_file)
        found == Lookup(section_name)
        out == IF found.path = "exact"
               THEN ExactSection(CHOOSE x \in found.section : TRUE, endian,
                                 host_null, overflow_checks)
               ELSE IF found.path = "prefixed"
               THEN PrefixedSection(CHOOSE x \in found.section : TRUE, endian)
               ELSE AbsentSection(endian)
    IN  [ret |-> out.ret, reads |-> out.reads,
         probe |-> [section_name |-> section_name, path |-> found.path,
                    section |-> found.section, compressed |-> out.compressed]]

(***************************************************************************)
(* The images the reader is run against.  An image is laid out from a few  *)
(* parameters: sections occupy consecutive slots from BaseAddress, each    *)
(* slot holding a compression header (method tag, then filler naming the   *)
(* slot) and a payload; the section-header side table follows the slots.   *)
(***************************************************************************)
AllNames ==
    << <<".", "debug_info">>, <<".", "debug_info", ".dwo">>,
       <<"_", "_", "debug_info">>, <<"_", "_", "debug_info", ".dwo">>,
       <<".", "debug_frame">> >>

SlotSize == 3 * 8 + MaxPayload

SlotStart(k) == BaseAddress + (k - 1) * SlotSize

TableAddress == BaseAddress + MaxSections * SlotSize

Payload(k, packer) ==
    <<IF packer = "zlib" THEN ZlibMagic ELSE ZstdMagic>>
        \o [i \in 1..(MaxPayload - 1) |-> 16 * k + i]

SlotBytes(k, asz, enc, tag, packer) ==
    Encode(enc, tag, 4) \o [i \in 1..(3 * asz - 4) |-> k] \o Payload(k, packer)
        \o Zeros(SlotSize - 3 * asz - MaxPayload)

RECURSIVE Concat(_)
Concat(seqs) == IF Len(seqs) = 0 THEN <<>> ELSE Head(seqs) \o Concat(Tail(seqs))

\* Elf32_Shdr is 40 bytes, Elf64_Shdr 64
ShdrSize(asz) == IF asz = 4 THEN 40 ELSE 64

\* a header record for slot j: flags (SHF_ALLOC, and SHF_COMPRESSED when
\* flagged) at byte 8, the slot's start address where the reader looks for it
Record(j, asz, enc, flagged) ==
    Zeros(8) \o Encode(enc, IF flagged THEN 2048 + 2 ELSE 2, asz)
        \o Zeros(IF asz = 4 THEN 4 ELSE 8)
        \o Encode(enc, SlotStart(j), asz)
        \o Zeros(ShdrSize(asz) - (IF asz = 4 THEN 20 ELSE 32))

SectionLen(len_kind, asz) ==
    IF len_kind = "empty" THEN 0
    ELSE IF len_kind = "short" THEN 4
    ELSE 3 * asz + MaxPayload

\* the number of names of AllNames up to index i that are in `present`
Rank(present, i) == Cardinality({j \in 1..i : AllNames[j] \in present})

TableBytes(t, asz, enc) ==
    IF t.elem = "proper"
    THEN Concat([j \in 1..t.nrec |-> Record(j, asz, enc, j \in t.flagged)])
            \o (IF t.partial THEN Zeros(8) ELSE <<>>)
    ELSE Zeros(16)

ElementWidth(t, asz) ==
    IF t.elem = "proper" THEN ShdrSize(asz)
    ELSE IF t.elem = "short" THEN 8
    ELSE IF t.elem = "zero" THEN 0
    ELSE NoElementType

FullTable(symbol) ==
    [symbol |-> symbol, dv |-> TRUE, elem |-> "proper", nrec |-> MaxRecords,
     flagged |-> 1..MaxRecords, partial |-> FALSE]

Tables ==
    {FullTable("absent"), FullTable("elsewhere"),
     [FullTable("table") EXCEPT !.dv = FALSE]}
    \cup {[symbol |-> "table", dv |-> TRUE, elem |-> e, nrec |-> 0,
           flagged |-> {}, partial |-> FALSE] : e \in {"none", "zero", "short"}}
    \cup {[symbol |-> "table", dv |-> TRUE, elem |-> "proper", nrec |-> n,
           flagged |-> {}, partial |-> p] : n \in 0..MaxRecords, p \in BOOLEAN}
    \cup {[symbol |-> "table", dv |-> TRUE, elem |-> "proper", nrec |-> n,
           flagged |-> {j}, partial |-> FALSE] : n \in 1..MaxRecords, j \in 1..MaxRecords}

Contents == {[tag |-> 1, packer |-> "zlib"], [tag |-> 1, packer |-> "zstd"],
             [tag |-> 2, packer |-> "zlib"], [tag |-> 2, packer |-> "zstd"],
             [tag |-> 3, packer |-> "zlib"]}

\* the method tag and the payload are read only under a flagged record of a
\* table the reader finds: elsewhere one content stands for all
ContentRead(t) == t.dv /\ t.flagged # {}

Images ==
    {p \in [asz : {4, 8}, enc : Endians,
            present : {q \in SUBSET {AllNames[i] : i \in 1..Len(AllNames)} :
                         Cardinality(q) <= MaxSections},
            len_kind : {"empty", "short", "full"},
            table : Tables, content : Contents] :
        /\ p.table.flagged \subseteq 1..p.table.nrec
        /\ ~ContentRead(p.table) => p.content = [tag |-> 1, packer |-> "zlib"]}

ImageSections(p) ==
    {[name |-> AllNames[i], start |-> SlotStart(Rank(p.present, i)),
      len |-> SectionLen(p.len_kind, p.asz)] :
        i \in {j \in 1..Len(AllNames) : AllNames[j] \in p.present}}

ImageSymbols(p) ==
    <<[full_name |-> "_start", address |-> TableAddress]>>
        \o (IF p.table.symbol = "absent" THEN <<>>
            ELSE <<[full_name |-> "__elf_section_headers",
                    address |-> IF p.table.symbol = "table" THEN TableAddress ELSE 0]>>)

ImageDataVariables(p) ==
    IF p.table.dv
    THEN <<[address |-> TableAddress, width |-> Len(TableBytes(p.table, p.asz, p.enc)),
            element_width |-> ElementWidth(p.table, p.asz)]>>
    ELSE <<>>

ImageMemory(p) ==
    Zeros(BaseAddress)
        \o Concat([k \in 1..MaxSections |->
                     SlotBytes(k, p.asz, p.enc, p.content.tag, p.content.packer)])
        \o TableBytes(p.table, p.asz, p.enc)

(***************************************************************************)
(* The state machine: an image, and calls of the reader against it.        *)
(***************************************************************************)
NoArgs == [section_id |-> "none", endian |-> "none", dwo_file |-> FALSE]

NoProbe == [section_name |-> <<>>, path |-> "none", section |-> {}, compressed |-> FALSE]

NoStorage == [kind |-> "none", offset |-> 0, len |-> 0]

\* the presence predicates whose returned values are kept
Predicates ==
    {"is_non_dwo_dwarf", "is_dwo_dwarf", "is_raw_non_dwo_dwarf", "is_raw_dwo_dwarf"}

NoHistory == [f \in Predicates |-> {}]

\* network.enableDebuginfod as the host ships it: off, no view override
DefaultSettings == [k \in {"network.enableDebuginfod"} |-> [default |-> FALSE, view |-> {}]]

Callers == 1..MaxCallers

\* a call that has not begun: its arguments, the locals the steps bind
\* (section, symbol, data_var, ch_type), the host's and the build's choices
\* it met, and its outcome
IdleCaller ==
    [pc |-> "idle", args |-> NoArgs, section |-> {}, symbol |-> {}, data_var |-> {},
     ch_type |-> <<>>, overflow_checks |-> FALSE, host_null |-> FALSE, ret |-> NoReturn]

\* the objects the host hands to callbacks
Handles == {"view", "debug_file", "debug_info"}

\* a cursor on a view with no position: lines[k] is the line list of position
\* k, index the position the cursor is on (0 before the first, one more than
\* the last after the end)
NoCursor == [lines |-> <<>>, index |-> 0]

\* the binding's other entry points at rest: every object referenced once by
\* the host, nothing registered, no cursor, no analysis info
FfiIdle ==
    /\ refcount = [h \in Handles |-> 1]
    /\ registry = <<>>
    /\ cursor = NoCursor
    /\ analysis = {}

ImageEndianness(p) == IF p.enc = "Little" THEN "LittleEndian" ELSE "BigEndian"

\* the result of a predicate or of get_endian
Value(fn, v) == [kind |-> "Value", fn |-> fn, value |-> v]

\* (mutant of RcFrom: the slice handed to Rc::from is kept, not copied)
RcFromBorrowing(out) ==
    IF out.ret.kind # "Ok" THEN NoStorage
    ELSE IF out.probe.section # {} /\ ~out.probe.compressed
    THEN LET section == CHOOSE x \in out.probe.section : TRUE
         IN  [kind |-> "image", offset |-> section.start, len |-> section.len]
    ELSE [kind |-> "owned", offset |-> 0, len |-> 0]

\* Rc::from(&[u8]) and Into<Rc<[u8]>>: the bytes are copied into a fresh
\* reference-counted allocation, which the returned slice owns
RcFrom(out) ==
    IF out.ret.kind = "Ok" THEN [kind |-> "owned", offset |-> 0, len |-> 0] ELSE NoStorage

Init ==
    /\ \E p \in Images :
        /\ address_size = p.asz
        /\ default_endianness = ImageEndianness(p)
        /\ sections = ImageSections(p)
        /\ symbols = ImageSymbols(p)
        /\ data_variables = ImageDataVariables(p)
        /\ memory = ImageMemory(p)
    /\ raw_view = {}
    /\ settings = DefaultSettings
    /\ pc = "idle"
    /\ args = NoArgs
    /\ ret = NoReturn
    /\ reads = <<>>
    /\ probe = NoProbe
    /\ storage = NoStorage
    /\ history = NoHistory
    /\ callers = [c \in Callers |-> IdleCaller]
    /\ FfiIdle

\* the image's bytes with those of the reads rd taken out of it (zeroed)
MemoryWithout(rd) ==
    [a \in 1..Len(memory) |->
        IF \E i \in 1..Len(rd) :
              rd[i].offset < a /\ (rd[i].len < 0 \/ a <= rd[i].offset + rd[i].len)
        THEN 0 ELSE memory[a]]

\* (mutant of CreateSectionReader: the bytes read are moved out of the image)
CreateSectionReaderTakingBytes ==
    \E section_id \in SectionIds, endian \in Endians, dwo_file \in BOOLEAN,
       host_null \in BOOLEAN, overflow_checks \in BOOLEAN :
        LET out == create_section_reader(section_id, endian, dwo_file,
                                         host_null, overflow_checks)
        IN  /\ pc = "idle"
            /\ pc' = "returned"
            /\ args' = [section_id |-> section_id, endian |-> endian, dwo_file |-> dwo_file]
            /\ ret' = out.ret
            /\ reads' = out.reads
            /\ probe' = out.probe
            /\ storage' = NoStorage
            /\ memory' = MemoryWithout(out.reads)
            /\ UNCHANGED <<address_size, default_endianness, sections, symbols,
                           data_variables, file, ffi, history, callers>>

\* one call of create_section_reader, from entry to return (or panic)
CreateSectionReader ==
    \E section_id \in SectionIds, endian \in Endians, dwo_file \in BOOLEAN,
       host_null \in BOOLEAN, overflow_checks \in BOOLEAN :
        LET out == create_section_reader(section_id, endian, dwo_file,
                                         host_null, overflow_checks)
        IN  /\ pc = "idle"
            /\ pc' = "returned"
            /\ args' = [section_id |-> section_id, endian |-> endian, dwo_file |-> dwo_file]
            /\ ret' = out.ret
            /\ reads' = out.reads
            /\ probe' = out.probe
            /\ storage' = RcFrom(out)
            /\ UNCHANGED <<view, file, ffi, history, callers>>

\* (mutant of Query: the call leaves its answer behind as the image's only section)
QueryCaching(fn, v) ==
    /\ pc = "idle"
    /\ pc' = "queried"
    /\ ret' = Value(fn, v)
    /\ sections' = IF v = TRUE
                   THEN {[name |-> <<".", "debug_info">>, start |-> BaseAddress, len |-> 0]}
                   ELSE {}
    /\ UNCHANGED <<address_size, default_endianness, symbols, data_variables, memory,
                   file, ffi, args, reads, probe, storage, history, callers>>

\* one call of a `pub fn f(view: &BinaryView)` of lines 40-90, from entry to
\* return: the view is borrowed immutably and only looked up
Query(fn, v) ==
    /\ pc = "idle"
    /\ pc' = "queried"
    /\ ret' = Value(fn, v)
    /\ UNCHANGED <<view, file, ffi, args, reads, probe, storage, history, callers>>

IsNonDwoDwarf == Query("is_non_dwo_dwarf", is_non_dwo_dwarf)

IsDwoDwarf == Query("is_dwo_dwarf", is_dwo_dwarf)

IsRawNonDwoDwarf == Query("is_raw_non_dwo_dwarf", is_raw_non_dwo_dwarf)

IsRawDwoDwarf == Query("is_raw_dwo_dwarf", is_raw_dwo_dwarf)

HasBuildIdSection == Query("has_build_id_section", has_build_id_section)

CanUseDebuginfod == Query("can_use_debuginfod", can_use_debuginfod)

IsValid == Query("is_valid", is_valid)

GetEndian == Query("get_endian", get_endian)

\* the caller drops the returned reader (or unwinds from the panic), or is
\* done with a predicate's answer, which the history keeps
Drop ==
    /\ pc \in {"returned", "queried"}
    /\ pc' = "idle"
    /\ args' = NoArgs
    /\ ret' = NoReturn
    /\ reads' = <<>>
    /\ probe' = NoProbe
    /\ storage' = NoStorage
    /\ history' = IF pc = "queried" /\ ret.fn \in Predicates
                  THEN [history EXCEPT ![ret.fn] = @ \cup {ret.value}]
                  ELSE history
    /\ UNCHANGED <<view, file, ffi, callers>>

Next == CreateSectionReader \/ GetEndian \/ Drop

Spec == Init /\ [][Next]_vars

(***************************************************************************)
(* The predicates, called against images that differ in the names of       *)
(* their sections, in the Raw view the file has (none, or one with its own *)
(* sections) and in the value of the setting.                              *)
(***************************************************************************)
PredNames ==
    << <<".", "debug_info">>, <<"_", "_", "debug_info">>, <<".", "debug_info", ".dwo">>,
       <<".", "note.gnu.build-id">>, <<".", "debug_frame">> >>

\* a view's sections for a set of indices of PredNames: one byte each, in
\* the order of the names, from BaseAddress
PredSections(present) ==
    {[name |-> PredNames[i],
      start |-> BaseAddress + Cardinality({j \in present : j < i}),
      len |-> 1] : i \in present}

PredSettings ==
    {[k \in {"network.enableDebuginfod"} |-> [default |-> d, view |-> o]] :
        d \in BOOLEAN, o \in {{}, {TRUE}, {FALSE}}}

PredPresent == {q \in SUBSET (1..Len(PredNames)) : Cardinality(q) <= MaxSections}

PredInit ==
    /\ address_size = 8
    /\ default_endianness = "LittleEndian"
    /\ \E present \in PredPresent : sections = PredSections(present)
    /\ symbols = <<>>
    /\ data_variables = <<>>
    /\ memory = Zeros(BaseAddress + MaxSections)
    /\ \/ raw_view = {}
       \/ \E present \in PredPresent : raw_view = {[sections |-> PredSections(present)]}
    /\ settings \in PredSettings
    /\ pc = "idle"
    /\ args = NoArgs
    /\ ret = NoReturn
    /\ reads = <<>>
    /\ probe = NoProbe
    /\ storage = NoStorage
    /\ history = NoHistory
    /\ callers = [c \in Callers |-> IdleCaller]
    /\ FfiIdle

PredNext ==
    \/ IsNonDwoDwarf
    \/ IsDwoDwarf
    \/ IsRawNonDwoDwarf
    \/ IsRawDwoDwarf
    \/ HasBuildIdSection
    \/ CanUseDebuginfod
    \/ IsValid
    \/ Drop

PredSpec == PredInit /\ [][PredNext]_vars

(***************************************************************************)
(* The returned buffer and the image after the call: while the caller      *)
(* holds the buffer, the image's bytes are written, a section is removed,  *)
(* or the image is released.                                               *)
(***************************************************************************)
\* the contents of a buffer r whose bytes live as st says, the image's bytes
\* being mem: an owned buffer keeps its bytes, a borrowed one shows the image's
Held(r, st, mem) ==
    IF st.kind = "image"
    THEN [r EXCEPT !.data =
            [i \in 1..(IF st.offset + st.len <= Len(mem) THEN st.len
                       ELSE IF st.offset >= Len(mem) THEN 0
                       ELSE Len(mem) - st.offset) |-> mem[st.offset + i]]]
    ELSE r

\* the images of this specification: one section of full length under the
\* canonical or the "__" name, with no side table or with a flagged record
OwnImages ==
    {p \in Images :
        /\ p.asz = 4 /\ p.enc = "Little" /\ p.len_kind = "full"
        /\ p.present \in {{<<".", "debug_info">>}, {<<"_", "_", "debug_info">>}}
        /\ p.table \in {FullTable("absent"),
                        [symbol |-> "table", dv |-> TRUE, elem |-> "proper", nrec |-> 1,
                         flagged |-> {1}, partial |-> FALSE]}}

OwnInit ==
    /\ \E p \in OwnImages :
        /\ address_size = p.asz
        /\ default_endianness = ImageEndianness(p)
        /\ sections = ImageSections(p)
        /\ symbols = ImageSymbols(p)
        /\ data_variables = ImageDataVariables(p)
        /\ memory = ImageMemory(p)
    /\ raw_view = {}
    /\ settings = DefaultSettings
    /\ pc = "idle"
    /\ args = NoArgs
    /\ ret = NoReturn
    /\ reads = <<>>
    /\ probe = NoProbe
    /\ storage = NoStorage
    /\ history = NoHistory
    /\ callers = [c \in Callers |-> IdleCaller]
    /\ FfiIdle

\* the addresses written: the method tag, the first payload byte and the
\* last byte of the first section
WriteAddresses ==
    {SlotStart(1), SlotStart(1) + 3 * address_size,
     SlotStart(1) + 3 * address_size + MaxPayload - 1}

\* BinaryViewExt::write of one byte while the caller holds the buffer
WriteBytes ==
    \E a \in WriteAddresses :
        /\ pc = "returned"
        /\ a < Len(memory)
        /\ memory[a + 1] # 255
        /\ memory' = [memory EXCEPT ![a + 1] = 255]
        /\ ret' = Held(ret, storage, memory')
        /\ UNCHANGED <<address_size, default_endianness, sections, symbols, data_variables,
                       file, ffi, pc, args, reads, probe, storage, history, callers>>

\* BinaryViewExt::remove_auto_section while the caller holds the buffer
RemoveSection ==
    \E s \in sections :
        /\ pc = "returned"
        /\ sections' = sections \ {s}
        /\ ret' = Held(ret, storage, memory)
        /\ UNCHANGED <<address_size, default_endianness, symbols, data_variables, memory,
                       file, ffi, pc, args, reads, probe, storage, history, callers>>

\* the last reference to the view is dropped while the caller holds the buffer
ReleaseView ==
    /\ pc = "returned"
    /\ pc' = "released"
    /\ sections' = {}
    /\ symbols' = <<>>
    /\ data_variables' = <<>>
    /\ memory' = <<>>
    /\ ret' = Held(ret, storage, memory')
    /\ UNCHANGED <<address_size, default_endianness, file, ffi, args, reads, probe,
                   storage, history, callers>>

OwnNext == CreateSectionReader \/ Drop \/ WriteBytes \/ RemoveSection \/ ReleaseView

OwnSpec == OwnInit /\ [][OwnNext]_vars

(***************************************************************************)
(* Concurrent calls of create_section_reader against one image.  Each     *)
(* call is a sequence of steps, one per call into the host (a lookup, an   *)
(* enumeration, a read) together with the computation that follows it;     *)
(* the steps of different calls interleave freely.                         *)
(***************************************************************************)
ConcImages ==
    {p \in Images :
        /\ p.asz = 4 /\ p.enc = "Little"
        /\ p.present \in {{<<".", "debug_info">>, <<".", "debug_info", ".dwo">>},
                          {<<"_", "_", "debug_info">>, <<".", "debug_frame">>}}
        /\ p.len_kind \in {"short", "full"}
        /\ p.table \in {FullTable("absent"),
                        [symbol |-> "table", dv |-> TRUE, elem |-> "none", nrec |-> 0,
                         flagged |-> {}, partial |-> FALSE],
                        [symbol |-> "table", dv |-> TRUE, elem |-> "proper", nrec |-> 1,
                         flagged |-> {1}, partial |-> FALSE]}
        /\ p.content.packer = "zlib" /\ p.content.tag \in {1, 3}}

ConcInit ==
    /\ \E p \in ConcImages :
        /\ address_size = p.asz
        /\ default_endianness = ImageEndianness(p)
        /\ sections = ImageSections(p)
        /\ symbols = ImageSymbols(p)
        /\ data_variables = ImageDataVariables(p)
        /\ memory = ImageMemory(p)
    /\ raw_view = {}
    /\ settings = DefaultSettings
    /\ pc = "idle"
    /\ args = NoArgs
    /\ ret = NoReturn
    /\ reads = <<>>
    /\ probe = NoProbe
    /\ storage = NoStorage
    /\ history = NoHistory
    /\ callers = [c \in Callers |-> IdleCaller]
    /\ FfiIdle

\* caller c's locals become `local`; nothing else changes
Step(c, local) ==
    /\ callers' = [callers EXCEPT ![c] = local]
    /\ UNCHANGED <<view, file, ffi, pc, args, ret, reads, probe, storage, history>>

\* caller c's call ends with outcome r
Return(c, r) == Step(c, [callers[c] EXCEPT !.pc = "returned", !.ret = r])

\* (mutant of SectionOf: the looked-up section is kept in one slot that all
\* calls share, so a caller sees the section another caller looked up)
SectionOfSharedSlot(c) ==
    LET others == {d \in Callers : d # c /\ callers[d].section # {}}
    IN  IF others = {} THEN CHOOSE x \in callers[c].section : TRUE
        ELSE CHOOSE x \in callers[CHOOSE d \in others : TRUE].section : TRUE

\* lines 104, 180: `section`, a local of the call
SectionOf(c) == CHOOSE x \in callers[c].section : TRUE

\* lines 92-102: the call begins; the byte order is the image's (get_endian)
Begin(c) ==
    \E section_id \in SectionIds, dwo_file \in BOOLEAN :
        /\ callers[c].pc = "idle"
        /\ Step(c, [IdleCaller EXCEPT
                      !.pc = "lookup",
                      !.args = [section_id |-> section_id, endian |-> get_endian,
                                dwo_file |-> dwo_file]])

\* line 104: view.section_by_name(section_name)
LookupSection(c) ==
    LET a == callers[c].args
        found == section_by_name(SectionName(a.section_id, a.dwo_file))
    IN  /\ callers[c].pc = "lookup"
        /\ Step(c, IF found # {}
                   THEN [callers[c] EXCEPT !.pc = "symbols", !.section = found]
                   ELSE [callers[c] EXCEPT !.pc = "lookup_prefixed"])

\* lines 180, 185-187: the lookup under the "__" name
LookupPrefixed(c) ==
    LET a == callers[c].args
        found == section_by_name(PrefixedName(SectionName(a.section_id, a.dwo_file)))
    IN  /\ callers[c].pc = "lookup_prefixed"
        /\ IF found # {}
           THEN Step(c, [callers[c] EXCEPT !.pc = "read_prefixed", !.section = found])
           ELSE Return(c, Ok(<<>>, a.endian))

\* lines 181-184
ReadPrefixed(c) ==
    /\ callers[c].pc = "read_prefixed"
    /\ Return(c, Ok(read_vec(SectionOf(c).start, SectionOf(c).len), callers[c].args.endian))

\* lines 106-110: view.symbols().iter().find(..)
FindSymbolStep(c) ==
    /\ callers[c].pc = "symbols"
    /\ Step(c, IF FindSymbol = {} THEN [callers[c] EXCEPT !.pc = "raw"]
               ELSE [callers[c] EXCEPT !.pc = "data_variables", !.symbol = FindSymbol])

\* lines 111-115: view.data_variables().iter().find(..)
FindDataVariableStep(c) ==
    LET data_var == FindDataVariable(CHOOSE y \in callers[c].symbol : TRUE)
    IN  /\ callers[c].pc = "data_variables"
        /\ Step(c, IF data_var = {} THEN [callers[c] EXCEPT !.pc = "raw"]
                   ELSE [callers[c] EXCEPT !.pc = "read_table", !.data_var = data_var])

\* lines 117-137: the table is read and searched for the section's record
ReadTable(c) ==
    LET data_var == CHOOSE v \in callers[c].data_var : TRUE
        endian == callers[c].args.endian
        data == read_vec(data_var.address, data_var.width)
        found == FindHeader(Chunks(data, data_var.element_width), SectionOf(c), endian)
    IN  /\ callers[c].pc = "read_table"
        /\ IF data_var.element_width = NoElementType THEN Return(c, Panic(119))
           ELSE IF data_var.element_width = 0 THEN Return(c, Panic(122))
           ELSE IF found.panic THEN Return(c, Panic(125))
           ELSE IF found.header = {} THEN Step(c, [callers[c] EXCEPT !.pc = "raw"])
           ELSE IF CompressedBit(section_flags(CHOOSE h \in found.header : TRUE, endian))
                THEN Step(c, [callers[c] EXCEPT !.pc = "compressed"])
           ELSE Step(c, [callers[c] EXCEPT !.pc = "raw"])

\* lines 139-145: the length is computed and the method tag read
ReadTag(c) ==
    \E overflow_checks \in BOOLEAN :
        LET len == SectionOf(c).len - address_size * 3
            ch_type_vec == read_vec(SectionOf(c).start, 4)
            local == [callers[c] EXCEPT !.overflow_checks = overflow_checks]
        IN  /\ callers[c].pc = "compressed"
            /\ IF len < 0 /\ overflow_checks
               THEN Step(c, [local EXCEPT !.pc = "returned", !.ret = Panic(142)])
               ELSE IF Len(ch_type_vec) < 4
               THEN Step(c, [local EXCEPT !.pc = "returned", !.ret = Panic(145)])
               ELSE Step(c, [local EXCEPT
                               !.pc = "read_buffer",
                               !.ch_type = ReadUInt(callers[c].args.endian, ch_type_vec)])

\* lines 147-165: the payload is asked of the host and decoded
ReadBuffer(c) ==
    \E host_null \in BOOLEAN :
        LET offset == SectionOf(c).start + address_size * 3
            len == SectionOf(c).len - address_size * 3
            local == [callers[c] EXCEPT !.host_null = host_null]
        IN  /\ callers[c].pc = "read_buffer"
            /\ IF host_null THEN Step(c, [local EXCEPT !.pc = "raw"])
               ELSE Step(c, [local EXCEPT
                               !.pc = "returned",
                               !.ret = Dispatch(callers[c].ch_type,
                                                ReadViewData(offset, len),
                                                callers[c].args.endian)])

\* lines 170-179
ReadRaw(c) ==
    /\ callers[c].pc = "raw"
    /\ Return(c, IF SectionOf(c).len = 0 THEN Ok(<<>>, callers[c].args.endian)
                 ELSE Ok(read_vec(SectionOf(c).start, SectionOf(c).len),
                         callers[c].args.endian))

ConcNext ==
    \E c \in Callers :
        \/ Begin(c)
        \/ LookupSection(c)
        \/ LookupPrefixed(c)
        \/ ReadPrefixed(c)
        \/ FindSymbolStep(c)
        \/ FindDataVariableStep(c)
        \/ ReadTable(c)
        \/ ReadTag(c)
        \/ ReadBuffer(c)
        \/ ReadRaw(c)

ConcSpec == ConcInit /\ [][ConcNext]_vars

(***************************************************************************)
(* Vocabulary of the properties.                                           *)
(***************************************************************************)
Returned == pc = "returned"

\* the name the claims expect the call to look up
ExpectedName ==
    IF args.dwo_file /\ dwo_name(args.section_id) # {}
    THEN CHOOSE n \in dwo_name(args.section_id) : TRUE
    ELSE name(args.section_id)

Exists(section_name) == \E s \in sections : s.name = section_name

SectionNamed(section_name) == CHOOSE s \in sections : s.name = section_name

DoubleUnderscore(section_name) == <<"_", "_">> \o Tail(section_name)

\* a direct raw read of [start, start + len)
RawBytes(s) == [i \in 1..s.len |-> memory[s.start + i]]

Resolved == probe.section # {}

TheSection == CHOOSE s \in probe.section : TRUE

\* the 4-byte method tag of the resolved section, in the call's byte order
MethodTag ==
    LET b == [i \in 1..4 |-> memory[TheSection.start + i]]
    IN  IF args.endian = "Big" THEN b ELSE <<b[4], b[3], b[2], b[1]>>

TagOne == <<0, 0, 0, 1>>
TagTwo == <<0, 0, 0, 2>>

\* the bytes at [start + 3 * address_size, start + len), empty when len is smaller
PayloadBytes ==
    [i \in 1..(TheSection.len - 3 * address_size) |->
        memory[TheSection.start + 3 * address_size + i]]

\* the call asked the host for a buffer and got one
BufferRead == \E i \in 1..Len(reads) : reads[i].op = "read_buffer" /\ reads[i].ok

\* no symbol named __elf_section_headers, or none with a data variable at its address
NoSideTable ==
    \A i \in 1..Len(symbols) :
        symbols[i].full_name = "__elf_section_headers" =>
            \A j \in 1..Len(data_variables) :
                data_variables[j].address # symbols[i].address

(***************************************************************************)
(* C1.  A section absent under the computed name and under its "__"        *)
(* variant gives success with a zero-length buffer, never an error, for    *)
(* every section identifier and either value of is_split_file.             *)
(***************************************************************************)
C1_AbsentSectionIsEmpty ==
    (Returned /\ ~Exists(ExpectedName) /\ ~Exists(DoubleUnderscore(ExpectedName)))
        => (ret.kind = "Ok" /\ ret.data = <<>> /\ reads = <<>>)

C1_Witness ==
    /\ Returned /\ sections # {} /\ args.dwo_file
    /\ ~Exists(ExpectedName) /\ ~Exists(DoubleUnderscore(ExpectedName))
    /\ ret.kind = "Ok"

(***************************************************************************)
(* C2.  As claimed: every resolved section whose compression bit is not    *)
(* found set (including when detection is skipped) is returned as the raw  *)
(* bytes of [start, start + len).  The code violates it: with a side table *)
(* it cannot index, detection panics instead of returning the section.     *)
(***************************************************************************)
C2_UncompressedIsRawRead ==
    (Returned /\ Resolved /\ ~probe.compressed)
        => (ret.kind = "Ok" /\ ret.data = RawBytes(TheSection))

(***************************************************************************)
(* C3.  As claimed: for a section detected as compressed the payload read  *)
(* is [start + 3 * address_size, start + len), and the result is the zlib  *)
(* inflation of that payload under tag 1 and its zstd decoding under tag   *)
(* 2.  The code violates it: for len below the header size the length      *)
(* wraps (or the call panics), and a failed buffer read returns the raw    *)
(* section instead.                                                        *)
(***************************************************************************)
C3_CompressedIsDecoded ==
    (Returned /\ Resolved /\ probe.compressed) =>
        /\ \E i \in 1..Len(reads) :
            /\ reads[i].op = "read_buffer"
            /\ reads[i].offset = TheSection.start + 3 * address_size
            /\ reads[i].len = TheSection.len - 3 * address_size
            /\ reads[i].len >= 0
        /\ (MethodTag = TagOne /\ ZlibValid(PayloadBytes))
              => (ret.kind = "Ok" /\ ret.data = ZlibInflate(PayloadBytes))
        /\ (MethodTag = TagTwo /\ ZstdValid(PayloadBytes))
              => (ret.kind = "Ok" /\ ret.data = ZstdDecode(PayloadBytes))

(***************************************************************************)
(* C4.  As claimed: a section detected as compressed whose method tag is   *)
(* neither 1 nor 2 fails with UnknownCompressionMethod carrying that tag,  *)
(* and no bytes.  The code violates it: when the buffer read fails the     *)
(* call returns the raw section, and an overflow-checking build panics on  *)
(* a section shorter than the compression header.                          *)
(***************************************************************************)
C4_UnknownTagFails ==
    (Returned /\ Resolved /\ probe.compressed /\ MethodTag \notin {TagOne, TagTwo})
        => (ret.kind = "UnknownCompressionMethod" /\ ret.tag = MethodTag
            /\ ret.data = <<>>)

(***************************************************************************)
(* C5.  As claimed, for the calls whose payload reaches the decoder: a     *)
(* payload the decoder rejects gives an I/O error, under tag 1 (zlib) and  *)
(* under tag 2 (zstd).  The code violates it under tag 1: the zlib path    *)
(* wraps whatever the decoder left in Ok.                                  *)
(***************************************************************************)
C5_RejectedPayloadIsIoError ==
    (Returned /\ Resolved /\ probe.compressed /\ BufferRead
        /\ TheSection.len >= 3 * address_size
        /\ \/ MethodTag = TagOne /\ ~ZlibValid(PayloadBytes)
           \/ MethodTag = TagTwo /\ ~ZstdValid(PayloadBytes))
        => ret.kind = "IoError"

(***************************************************************************)
(* C6.  With no symbol __elf_section_headers, or no data variable at that  *)
(* symbol's address, a resolved section is returned as its raw bytes with  *)
(* no compression detection: the only read is that of the section.         *)
(***************************************************************************)
C6_NoSideTableIsRawRead ==
    (Returned /\ Resolved /\ NoSideTable) =>
        /\ ret.kind = "Ok" /\ ret.data = RawBytes(TheSection)
        /\ ~probe.compressed
        /\ \A i \in 1..Len(reads) :
            reads[i] = [op |-> "read_vec", offset |-> TheSection.start,
                        len |-> TheSection.len, ok |-> TRUE]

C6_Witness ==
    /\ Returned /\ Resolved /\ NoSideTable
    /\ \E i \in 1..Len(symbols) : symbols[i].full_name = "__elf_section_headers"
    /\ data_variables # <<>>
    /\ ret.kind = "Ok" /\ ret.data # <<>>

(***************************************************************************)
(* C7.  The name looked up is the DWO name iff is_split_file is set and    *)
(* the identifier defines a DWO name, the canonical name otherwise; with   *)
(* is_split_file set and sections under both names, the section resolved   *)
(* is the DWO one and the raw bytes returned are its bytes.                *)
(***************************************************************************)
C7_DwoNameIffSplitFile ==
    Returned =>
        /\ probe.section_name = ExpectedName
        /\ (probe.section_name # name(args.section_id))
              <=> (args.dwo_file /\ dwo_name(args.section_id) # {})
        /\ (args.dwo_file /\ dwo_name(args.section_id) # {}
              /\ Exists(name(args.section_id)) /\ Exists(ExpectedName))
              => /\ probe.section = {SectionNamed(ExpectedName)}
                 /\ (ret.kind = "Ok" /\ ~probe.compressed)
                        => ret.data = RawBytes(SectionNamed(ExpectedName))

C7_Witness ==
    /\ Returned /\ args.dwo_file /\ dwo_name(args.section_id) # {}
    /\ Exists(name(args.section_id)) /\ Exists(ExpectedName)
    /\ ret.kind = "Ok" /\ ret.data # <<>>
    /\ ret.data = RawBytes(SectionNamed(ExpectedName))
    /\ ret.data # RawBytes(SectionNamed(name(args.section_id)))

(***************************************************************************)
(* C8.  As claimed: names are tried in the order canonical name, DWO name  *)
(* (split file requested), "__" name, the first that exists is resolved,   *)
(* and the section is absent only when none exists.                        *)
(***************************************************************************)
C8_CanonicalThenDwoThenPrefixed ==
    Returned =>
        LET canonical == name(args.section_id)
            tried == {canonical, DoubleUnderscore(canonical)}
                        \cup (IF args.dwo_file THEN dwo_name(args.section_id) ELSE {})
        IN  /\ Exists(canonical) => probe.section = {SectionNamed(canonical)}
            /\ (probe.path = "absent") <=> (\A n \in tried : ~Exists(n))

(***************************************************************************)
(* C8, amended.  At most one section is resolved per request, trying two   *)
(* names in order: the looked-up name (the DWO name when a split file is   *)
(* requested and the identifier defines one, else the canonical name),     *)
(* then that name with its first character replaced by "__"; the section   *)
(* is absent (empty result) exactly when neither exists.                   *)
(***************************************************************************)
C8_LookedUpThenPrefixed ==
    Returned =>
        /\ Cardinality(probe.section) <= 1
        /\ Exists(ExpectedName)
              => (probe.path = "exact" /\ probe.section = {SectionNamed(ExpectedName)})
        /\ (~Exists(ExpectedName) /\ Exists(DoubleUnderscore(ExpectedName)))
              => (probe.path = "prefixed"
                  /\ probe.section = {SectionNamed(DoubleUnderscore(ExpectedName))})
        /\ (~Exists(ExpectedName) /\ ~Exists(DoubleUnderscore(ExpectedName)))
              <=> (probe.path = "absent")
        /\ probe.path = "absent" => (probe.section = {} /\ ret.kind = "Ok" /\ ret.data = <<>>)

C8_Witness ==
    /\ Returned /\ args.dwo_file /\ dwo_name(args.section_id) # {}
    /\ Exists(name(args.section_id))
    /\ ~Exists(ExpectedName) /\ Exists(DoubleUnderscore(ExpectedName))
    /\ probe.path = "prefixed"

(***************************************************************************)
(* C9.  When the looked-up name is absent and a section exists under that  *)
(* name with its first character replaced by "__", that section is         *)
(* resolved and a copy of its raw bytes [start, start + len) is returned.  *)
(***************************************************************************)
C9_PrefixedNameIsResolved ==
    (Returned /\ ~Exists(ExpectedName) /\ Exists(DoubleUnderscore(ExpectedName)))
        => /\ probe.section = {SectionNamed(DoubleUnderscore(ExpectedName))}
           /\ ret.kind = "Ok"
           /\ ret.data = RawBytes(SectionNamed(DoubleUnderscore(ExpectedName)))

C9_Witness ==
    /\ Returned /\ ~Exists(ExpectedName) /\ Exists(DoubleUnderscore(ExpectedName))
    /\ ~args.dwo_file /\ ret.kind = "Ok" /\ ret.data # <<>>

(***************************************************************************)
(* C10.  As claimed, for the calls that return a buffer: a resolved        *)
(* section of length 0 gives an empty buffer and no raw read of the image  *)
(* is issued, under any of the names and with or without a side table.     *)
(* The code violates it: the "__" path reads unconditionally, and with a   *)
(* side table the table (and, when flagged, the section) is read.          *)
(***************************************************************************)
C10_EmptySectionIssuesNoRead ==
    (Returned /\ Resolved /\ TheSection.len = 0 /\ ret.kind = "Ok")
        => (ret.data = <<>> /\ reads = <<>>)

(***************************************************************************)
(* Vocabulary of the predicates' properties.                               *)
(***************************************************************************)
Queried(fn) == pc = "queried" /\ ret.fn = fn

HasName(secs, section_name) == \E s \in secs : s.name = section_name

\* the Raw view exists and has a section of that name
RawHasName(section_name) == \E raw \in raw_view : HasName(raw.sections, section_name)

\* the setting as a query scoped to the view resolves it
ViewScopedSetting ==
    LET entry == settings["network.enableDebuginfod"]
    IN  IF entry.view # {} THEN TRUE \in entry.view ELSE entry.default

(***************************************************************************)
(* C11.  As claimed: is_raw_non_dwo_dwarf is true iff the image has a Raw  *)
(* view and that Raw view has a section named .debug_info or __debug_info; *)
(* the sections of the image itself do not matter.  The code violates it:  *)
(* the second name is looked up in the image, not in the Raw view.         *)
(***************************************************************************)
C11_RawEmbeddedReadsRawViewOnly ==
    Queried("is_raw_non_dwo_dwarf") =>
        ret.value = (RawHasName(<<".", "debug_info">>)
                        \/ RawHasName(<<"_", "_", "debug_info">>))

(***************************************************************************)
(* C12.  is_non_dwo_dwarf is true iff the image has a section named        *)
(* .debug_info or one named __debug_info, and is_dwo_dwarf is true iff it  *)
(* has one named .debug_info.dwo, whatever other sections the image and    *)
(* its Raw view have.                                                      *)
(***************************************************************************)
C12_EmbeddedAndSplitByName ==
    /\ Queried("is_non_dwo_dwarf") =>
          ret.value = (HasName(sections, <<".", "debug_info">>)
                          \/ HasName(sections, <<"_", "_", "debug_info">>))
    /\ Queried("is_dwo_dwarf") =>
          ret.value = HasName(sections, <<".", "debug_info", ".dwo">>)

C12_Witness ==
    /\ Queried("is_non_dwo_dwarf") /\ ret.value = TRUE
    /\ ~HasName(sections, <<".", "debug_info">>)
    /\ HasName(sections, <<".", "debug_frame">>)
    /\ history["is_dwo_dwarf"] = {FALSE}

(***************************************************************************)
(* C13.  is_valid returns the logical OR of what the four presence         *)
(* predicates returned for the same image: false exactly when all four     *)
(* returned false.                                                         *)
(***************************************************************************)
C13_ValidIsOrOfFour ==
    (Queried("is_valid") /\ \A f \in Predicates : history[f] # {})
        => ret.value = (\E f \in Predicates : TRUE \in history[f])

C13_Witness ==
    /\ Queried("is_valid") /\ ret.value = TRUE
    /\ history["is_raw_dwo_dwarf"] = {TRUE}
    /\ \A f \in Predicates \ {"is_raw_dwo_dwarf"} : history[f] = {FALSE}

(***************************************************************************)
(* C14.  can_use_debuginfod is true iff the Raw view has a section named   *)
(* .note.gnu.build-id and the setting network.enableDebuginfod, resolved   *)
(* for the view, is on; false when either fails.                           *)
(***************************************************************************)
C14_DebuginfodNeedsBuildIdAndSetting ==
    Queried("can_use_debuginfod") =>
        ret.value = (RawHasName(<<".", "note.gnu.build-id">>) /\ ViewScopedSetting)

C14_Witness ==
    /\ Queried("can_use_debuginfod") /\ ret.value = TRUE
    /\ ~HasName(sections, <<".", "note.gnu.build-id">>)
    /\ settings["network.enableDebuginfod"].default = FALSE

(***************************************************************************)
(* C15.  With no Raw view, is_raw_non_dwo_dwarf, is_raw_dwo_dwarf and      *)
(* has_build_id_section return false (they return, they do not fail),      *)
(* whatever sections the image has.                                        *)
(***************************************************************************)
C15_NoRawViewIsFalse ==
    (pc = "queried" /\ raw_view = {}
        /\ ret.fn \in {"is_raw_non_dwo_dwarf", "is_raw_dwo_dwarf", "has_build_id_section"})
        => (ret.kind = "Value" /\ ret.value = FALSE)

C15_Witness ==
    /\ Queried("is_raw_non_dwo_dwarf") /\ raw_view = {} /\ ret.value = FALSE
    /\ HasName(sections, <<"_", "_", "debug_info">>)
    /\ HasName(sections, <<".", "debug_info">>)

(***************************************************************************)
(* C16.  A call of one of the four presence predicates leaves the image    *)
(* (address size, byte order, sections, symbols, data variables, bytes) as *)
(* it was, and returns the value every earlier call of that predicate on   *)
(* the image returned.                                                     *)
(***************************************************************************)
C16_PredicatesArePure ==
    [][(pc = "idle" /\ pc' = "queried" /\ ret'.fn \in Predicates)
          => /\ view' = view
             /\ history[ret'.fn] # {} => history[ret'.fn] = {ret'.value}]_vars

C16_Witness ==
    /\ pc = "queried" /\ ret.fn \in Predicates /\ ret.value = TRUE
    /\ history[ret.fn] = {TRUE}
    /\ \A f \in Predicates : history[f] # {}

(***************************************************************************)
(* C17.  A call of create_section_reader leaves the image as it was        *)
(* (address size, byte order, sections, symbols, data variables, bytes),   *)
(* whichever way it ends: absent, pass-through, "__" fallback,             *)
(* decompressed, error or panic.                                           *)
(***************************************************************************)
C17_ReaderLeavesImageUnchanged ==
    [][(pc = "idle" /\ pc' = "returned") => view' = view]_vars

C17_Witness ==
    /\ Returned /\ Resolved /\ probe.compressed /\ BufferRead
    /\ ret.kind = "Ok" /\ ret.data # <<>> /\ Len(reads) = 3

(***************************************************************************)
(* C18.  While the caller holds what create_section_reader returned, a     *)
(* write to the image's bytes, the removal of a section and the release of *)
(* the image leave the returned buffer's contents as they were.            *)
(***************************************************************************)
C18_BufferOwnsItsBytes ==
    [][(pc = "returned" /\ pc' \in {"returned", "released"}) => ret' = ret]_vars

C18_Witness ==
    /\ Returned /\ Resolved /\ ~probe.compressed
    /\ ret.kind = "Ok" /\ Len(ret.data) = TheSection.len
    /\ Len(memory) >= TheSection.start + TheSection.len
    /\ ret.data # RawBytes(TheSection)
    /\ ret.data[1] # 255 /\ memory[TheSection.start + 1] = 255

(***************************************************************************)
(* Vocabulary of the byte-order property: the side table as the image      *)
(* holds it, its fields spelled out byte by byte.                          *)
(***************************************************************************)
\* the data variable at the address of the symbol __elf_section_headers
TableVar ==
    CHOOSE v \in {data_variables[j] : j \in 1..Len(data_variables)} :
        \E i \in 1..Len(symbols) :
            symbols[i].full_name = "__elf_section_headers" /\ symbols[i].address = v.address

\* the whole records of the table
TableRecords == 1..(TableVar.width \div TableVar.element_width)

\* byte i of record k
TableByte(k, i) == memory[TableVar.address + (k - 1) * TableVar.element_width + i]

\* the n bytes after the first `skip` bytes of record k spell v in byte order e
FieldSpells(k, skip, n, e, v) ==
    \A i \in 1..n :
        TableByte(k, skip + (IF e = "Big" THEN i ELSE n + 1 - i)) = Digit(v, n - i)

\* record k's address field, where the reader looks for it, is the section's start
AddressFieldIs(k, e, start) ==
    IF address_size = 4 THEN FieldSpells(k, 16, 4, e, start)
    ELSE FieldSpells(k, 24, 8, e, start)

\* bit 11 (2048) of record k's flags field read in byte order e
FlagsFieldHasBit11(k, e) ==
    LET n == IF address_size = 4 THEN 4 ELSE 8
        byte == TableByte(k, 8 + (IF e = "Big" THEN n - 1 ELSE 2))
    IN  (byte \div 8) % 2 = 1

\* detection ran to its end: it did not panic on the table
DetectionCompleted ==
    /\ Returned /\ probe.path = "exact" /\ ~NoSideTable
    /\ ~(ret.kind = "Panic" /\ ret.line \in {119, 122, 125})

(***************************************************************************)
(* C19.  get_endian maps LittleEndian to Little and BigEndian to Big; and  *)
(* within one call of create_section_reader the byte order passed in       *)
(* decodes the header's address field, its flags field and the method tag, *)
(* and tags the returned buffer on every successful path.                  *)
(***************************************************************************)
C19_ByteOrderUsedUniformly ==
    /\ Queried("get_endian") =>
          /\ ret.value \in Endians
          /\ ret.value = "Little" <=> default_endianness = "LittleEndian"
    /\ (Returned /\ ret.kind = "Ok") => ret.endian = args.endian
    /\ (Returned /\ ret.kind = "UnknownCompressionMethod") => ret.tag = MethodTag
    /\ (Returned /\ probe.compressed /\ BufferRead) =>
          (ret.kind = "UnknownCompressionMethod" <=> MethodTag \notin {TagOne, TagTwo})
    /\ DetectionCompleted =>
          (probe.compressed <=>
              \E k \in TableRecords :
                  /\ AddressFieldIs(k, args.endian, TheSection.start)
                  /\ \A j \in 1..(k - 1) : ~AddressFieldIs(j, args.endian, TheSection.start)
                  /\ FlagsFieldHasBit11(k, args.endian))

C19_Witness ==
    /\ DetectionCompleted /\ probe.compressed /\ address_size = 8
    /\ args.endian = "Big" /\ default_endianness = "BigEndian"
    /\ ret.kind = "Ok" /\ ret.endian = "Big" /\ ret.data # <<>>

(***************************************************************************)
(* C20.  Under every interleaving of the steps of concurrent calls against *)
(* one unchanged image, each call that has ended has the outcome that the  *)
(* same call has when it runs alone, from entry to return, on that image.  *)
(***************************************************************************)
C20_ConcurrentCallsDoNotInterfere ==
    \A c \in Callers :
        callers[c].pc = "returned" =>
            callers[c].ret =
                create_section_reader(callers[c].args.section_id, callers[c].args.endian,
                                      callers[c].args.dwo_file, callers[c].host_null,
                                      callers[c].overflow_checks).ret

C20_Witness ==
    /\ callers[1].pc = "returned" /\ callers[1].ret.kind = "Ok"
    /\ callers[1].ret.data # <<>> /\ callers[1].section # {}
    /\ callers[2].pc = "read_buffer" /\ callers[2].section # callers[1].section

(***************************************************************************)
(* ShortSpec: the reader against images whose backing ends early, so that  *)
(* BNReadViewData produces fewer bytes than asked for: the image's bytes   *)
(* stop inside the first section, inside the side table, or not at all.    *)
(***************************************************************************)
ShortImages ==
    {p \in Images :
        /\ p.len_kind \in {"short", "full"}
        /\ p.present \in {{<<".", "debug_info">>}, {<<"_", "_", "debug_info">>}}
        /\ p.content = [tag |-> 1, packer |-> "zlib"]
        /\ p.table \in {FullTable("absent"),
                        [symbol |-> "table", dv |-> TRUE, elem |-> "proper", nrec |-> 1,
                         flagged |-> {}, partial |-> FALSE],
                        [symbol |-> "table", dv |-> TRUE, elem |-> "proper", nrec |-> 1,
                         flagged |-> {1}, partial |-> FALSE]}}

\* where the backing of image p ends: before the first section, inside its
\* method tag, one byte before its end, inside the first record of the side
\* table, and at the end of the image
Cuts(p) ==
    {SlotStart(1), SlotStart(1) + 2, SlotStart(1) + SectionLen(p.len_kind, p.asz) - 1,
     TableAddress + 8, Len(ImageMemory(p))}

ShortInit ==
    /\ \E p \in ShortImages :
        /\ address_size = p.asz
        /\ default_endianness = ImageEndianness(p)
        /\ sections = ImageSections(p)
        /\ symbols = ImageSymbols(p)
        /\ data_variables = ImageDataVariables(p)
        /\ \E cut \in Cuts(p) :
            /\ cut <= Len(ImageMemory(p))
            /\ memory = SubSeq(ImageMemory(p), 1, cut)
    /\ raw_view = {}
    /\ settings = DefaultSettings
    /\ pc = "idle"
    /\ args = NoArgs
    /\ ret = NoReturn
    /\ reads = <<>>
    /\ probe = NoProbe
    /\ storage = NoStorage
    /\ history = NoHistory
    /\ callers = [c \in Callers |-> IdleCaller]
    /\ FfiIdle

ShortNext == CreateSectionReader \/ Drop

ShortSpec == ShortInit /\ [][ShortNext]_vars

(***************************************************************************)
(* The view at rest, for the specifications of the binding's other entry   *)
(* points: one image, no call of the reader or of a predicate under way.   *)
(***************************************************************************)
ViewIdle ==
    /\ \E p \in {CHOOSE q \in OwnImages : TRUE} :
        /\ address_size = p.asz
        /\ default_endianness = ImageEndianness(p)
        /\ sections = ImageSections(p)
        /\ symbols = ImageSymbols(p)
        /\ data_variables = ImageDataVariables(p)
        /\ memory = ImageMemory(p)
    /\ raw_view = {}
    /\ settings = DefaultSettings
    /\ pc = "idle"
    /\ args = NoArgs
    /\ ret = NoReturn
    /\ reads = <<>>
    /\ probe = NoProbe
    /\ storage = NoStorage
    /\ history = NoHistory
    /\ callers = [c \in Callers |-> IdleCaller]

(***************************************************************************)
(* AnalysisSpec: BinaryViewExt::analysis_info against what the host's      *)
(* BNGetAnalysisInfo returns: null, or a BNAnalysisInfo with its state,    *)
(* its analysisTime and its array of active-analysis records.              *)
(***************************************************************************)
AnalysisStates == {"IdleState", "AnalyzeState"}

\* a BNActiveAnalysisInfo
HostActiveInfos ==
    [func : {"f", "g"}, analysisTime : {0, 1}, updateCount : {1}, submitCount : {2}]

RECURSIVE SeqsUpTo(_, _)
SeqsUpTo(S, n) ==
    IF n = 0 THEN {<<>>}
    ELSE SeqsUpTo(S, n - 1)
            \cup {Append(q, x) : q \in {r \in SeqsUpTo(S, n - 1) : Len(r) = n - 1}, x \in S}

\* a BNAnalysisInfo: activeInfo is the array, count its length
HostInfos ==
    [state : AnalysisStates, analysisTime : {0, 1},
     activeInfo : SeqsUpTo(HostActiveInfos, MaxActive)]

\* binary_view.rs:298-325
analysis_info ==
    IF analysis = {} THEN [kind |-> "Err"]
    ELSE LET info == CHOOSE x \in analysis : TRUE
             active_infos == info.activeInfo
             active_info_list ==
                 [i \in 1..Len(active_infos) |->
                     [func |-> active_infos[i].func,
                      analysis_time |-> active_infos[i].analysisTime,
                      update_count |-> active_infos[i].updateCount,
                      submit_count |-> active_infos[i].submitCount]]
             result == [state |-> info.state, analysis_time |-> info.analysisTime,
                        active_info |-> <<>>]
         IN  [kind |-> "Ok", info |-> result]

AnalysisInit ==
    /\ ViewIdle
    /\ refcount = [h \in Handles |-> 1]
    /\ registry = <<>>
    /\ cursor = NoCursor
    /\ analysis \in {{}} \cup {{x} : x \in HostInfos}

AnalysisInfoCall == Query("analysis_info", analysis_info)

AnalysisNext == AnalysisInfoCall \/ Drop

AnalysisSpec == AnalysisInit /\ [][AnalysisNext]_vars

(***************************************************************************)
(* CallbackSpec: the callbacks the binding registers with the host.  A     *)
(* registration boxes the user's behaviour object and hands the host its   *)
(* address as the context pointer; the host then invokes the callbacks     *)
(* with that pointer and with handles of its own objects.  refcount is the *)
(* host's count of references on each such object.                         *)
(***************************************************************************)
\* (mutant of BoxIntoRaw: the box is dropped when the registering function
\* returns, the host keeps its address)
BoxIntoRaw_Dropped(kind) == [kind |-> kind, box |-> "freed"]

\* Box::into_raw(Box::new(callbacks)): the box is given up to the host as a
\* raw pointer; nothing in the binding turns it back into a Box
BoxIntoRaw(kind) == [kind |-> kind, box |-> "allocated"]

\* BNNewViewReference on each handle of `acquired`
NewReferences(rc, acquired) == [h \in Handles |-> rc[h] + (IF h \in acquired THEN 1 ELSE 0)]

\* the Ref<T> wrapping each handle of `wrapped` goes out of scope: its
\* destructor calls dec_ref, the host's release entry point, once
DropRefs(rc, wrapped) == [h \in Handles |-> rc[h] - (IF h \in wrapped THEN 1 ELSE 0)]

\* DebugInfoParser::register, debuginfo.rs:262-272
RegisterDebugInfoParser ==
    /\ pc = "idle"
    /\ Len(registry) < MaxRegistrations
    /\ registry' = Append(registry, BoxIntoRaw("DebugInfoParser"))
    /\ UNCHANGED <<view, file, refcount, cursor, analysis, pc, args, ret, reads, probe,
                   storage, history, callers>>

\* register_binary_view_event, binary_view.rs:2080-2089
RegisterBinaryViewEvent ==
    /\ pc = "idle"
    /\ Len(registry) < MaxRegistrations
    /\ registry' = Append(registry, BoxIntoRaw("BinaryViewEvent"))
    /\ UNCHANGED <<view, file, refcount, cursor, analysis, pc, args, ret, reads, probe,
                   storage, history, callers>>

\* one invocation by the host of callback fn of registration i, from entry
\* to return: the context pointer is dereferenced, the handles of `acquired`
\* get a new reference, the handles of `wrapped` are put in a Ref each, the
\* user's behaviour runs, and the Refs are dropped
Callback(fn, i, acquired, wrapped) ==
    /\ pc = "idle"
    /\ \A h \in wrapped : refcount[h] > 0
    /\ refcount' = DropRefs(NewReferences(refcount, acquired), wrapped)
    /\ pc' = "queried"
    /\ ret' = Value(fn, [registration |-> i, box |-> registry[i].box, before |-> refcount,
                         acquired |-> acquired, released |-> wrapped])
    /\ UNCHANGED <<view, file, registry, cursor, analysis, args, reads, probe, storage,
                   history, callers>>

\* debuginfo.rs:215-224
CbIsValid ==
    \E i \in DOMAIN registry :
        /\ registry[i].kind = "DebugInfoParser"
        /\ Callback("cb_is_valid", i, {}, {"view"})

\* debuginfo.rs:226-260
CbParseInfo ==
    \E i \in DOMAIN registry :
        /\ registry[i].kind = "DebugInfoParser"
        /\ Callback("cb_parse_info", i, {}, {"view", "debug_file", "debug_info"})

\* binary_view.rs:2070-2078
OnEvent ==
    \E i \in DOMAIN registry :
        /\ registry[i].kind = "BinaryViewEvent"
        /\ Callback("on_event", i, {"view"}, {"view"})

\* the process ends: the host tears every registration down and the boxes go
\* with the process's memory
ProcessExit ==
    /\ pc = "idle"
    /\ pc' = "exited"
    /\ registry' = [i \in DOMAIN registry |-> [registry[i] EXCEPT !.box = "freed"]]
    /\ UNCHANGED <<view, file, refcount, cursor, analysis, args, ret, reads, probe,
                   storage, history, callers>>

CallbackInit ==
    /\ ViewIdle
    /\ refcount = [h \in Handles |-> HostRefs]
    /\ registry = <<>>
    /\ cursor = NoCursor
    /\ analysis = {}

CallbackNext ==
    \/ RegisterDebugInfoParser
    \/ RegisterBinaryViewEvent
    \/ CbIsValid
    \/ CbParseInfo
    \/ OnEvent
    \/ Drop
    \/ ProcessExit

CallbackSpec == CallbackInit /\ [][CallbackNext]_vars

(***************************************************************************)
(* CursorSpec: get_next_linear_disassembly_lines and                       *)
(* get_previous_linear_disassembly_lines on one LinearViewCursor.  The     *)
(* cursor is the host's: it is on a position of the view, before the first *)
(* or after the last; next and previous move it by one position and        *)
(* answer whether it is then on a position of the view.                    *)
(***************************************************************************)
\* LinearViewCursor::lines: the line list of the position the cursor is on,
\* none before the first position and after the last
CursorLines(pos) ==
    IF pos.index \in 1..Len(pos.lines) THEN pos.lines[pos.index] ELSE <<>>

\* LinearViewCursor::next
CursorNext(pos) ==
    IF pos.index > Len(pos.lines) THEN [ok |-> FALSE, pos |-> pos]
    ELSE [ok |-> pos.index + 1 <= Len(pos.lines), pos |-> [pos EXCEPT !.index = @ + 1]]

\* LinearViewCursor::previous
CursorPrevious(pos) ==
    IF pos.index = 0 THEN [ok |-> FALSE, pos |-> pos]
    ELSE [ok |-> pos.index - 1 >= 1, pos |-> [pos EXCEPT !.index = @ - 1]]

\* (mutant of get_next_linear_disassembly_lines: the cursor is moved before
\* its lines are taken)
RECURSIVE get_next_MovingFirst(_)
get_next_MovingFirst(pos) ==
    LET moved == CursorNext(pos)
    IN  IF ~moved.ok THEN [result |-> <<>>, pos |-> moved.pos]
        ELSE IF CursorLines(moved.pos) = <<>> THEN get_next_MovingFirst(moved.pos)
        ELSE [result |-> CursorLines(moved.pos), pos |-> moved.pos]

\* binary_view.rs:1218-1232: one turn of the loop, then the loop again while
\* the result is empty
RECURSIVE get_next_linear_disassembly_lines(_)
get_next_linear_disassembly_lines(pos) ==
    LET result == CursorLines(pos)
        moved == CursorNext(pos)
    IN  IF ~moved.ok THEN [result |-> result, pos |-> moved.pos]
        ELSE IF result = <<>> THEN get_next_linear_disassembly_lines(moved.pos)
        ELSE [result |-> result, pos |-> moved.pos]

\* (mutant of get_previous_linear_disassembly_lines: the lines are taken
\* before the cursor is moved)
RECURSIVE get_previous_TakingFirst(_)
get_previous_TakingFirst(pos) ==
    LET result == CursorLines(pos)
        moved == CursorPrevious(pos)
    IN  IF ~moved.ok THEN [result |-> result, pos |-> moved.pos]
        ELSE IF result = <<>> THEN get_previous_TakingFirst(moved.pos)
        ELSE [result |-> result, pos |-> moved.pos]

\* binary_view.rs:1242-1256
RECURSIVE get_previous_linear_disassembly_lines(_)
get_previous_linear_disassembly_lines(pos) ==
    LET moved == CursorPrevious(pos)
    IN  IF ~moved.ok THEN [result |-> <<>>, pos |-> moved.pos]
        ELSE IF CursorLines(moved.pos) = <<>>
             THEN get_previous_linear_disassembly_lines(moved.pos)
        ELSE [result |-> CursorLines(moved.pos), pos |-> moved.pos]

\* the views: up to MaxPositions positions, position k with no line or with
\* the one line k
LinearViews ==
    UNION {[1..n -> {0, 1}] : n \in 0..MaxPositions}

ViewLines(v) == [k \in DOMAIN v |-> IF v[k] = 1 THEN <<k>> ELSE <<>>]

CursorInit ==
    /\ ViewIdle
    /\ refcount = [h \in Handles |-> 1]
    /\ registry = <<>>
    /\ analysis = {}
    /\ \E v \in LinearViews :
        \E i \in 0..(Len(ViewLines(v)) + 1) :
            cursor = [lines |-> ViewLines(v), index |-> i]

\* one call on the cursor, straight after the caller's previous call if any:
\* the result keeps where the cursor was and what the call before returned
CursorCall(fn, out) ==
    /\ pc \in {"idle", "queried"}
    /\ pc' = "queried"
    /\ cursor' = out.pos
    /\ ret' = Value(fn, [lines |-> out.result, from |-> cursor.index,
                         after |-> IF pc = "queried"
                                   THEN {[fn |-> ret.fn, lines |-> ret.value.lines]}
                                   ELSE {}])
    /\ UNCHANGED <<view, file, refcount, registry, analysis, args, reads, probe, storage,
                   history, callers>>

GetNextLinearDisassemblyLines ==
    CursorCall("get_next_linear_disassembly_lines",
               get_next_linear_disassembly_lines(cursor))

GetPreviousLinearDisassemblyLines ==
    CursorCall("get_previous_linear_disassembly_lines",
               get_previous_linear_disassembly_lines(cursor))

CursorSpecNext == GetNextLinearDisassemblyLines \/ GetPreviousLinearDisassemblyLines \/ Drop

CursorSpec == CursorInit /\ [][CursorSpecNext]_vars

(***************************************************************************)
(* Further vocabulary of the reader's properties.                          *)
(***************************************************************************)
\* the side table is found, its records are wide enough to hold the fields
\* the reader indexes, and some whole record has the address `start` and
\* bit 11 of its flags set, both read in byte order e
FlaggedRecord(e, start) ==
    /\ ~NoSideTable
    /\ TableVar.element_width >= IndexedWidth
    /\ \E k \in TableRecords : AddressFieldIs(k, e, start) /\ FlagsFieldHasBit11(k, e)

\* the call asked the host for a buffer and the host returned none
BufferReadFailed == \E i \in 1..Len(reads) : reads[i].op = "read_buffer" /\ ~reads[i].ok

(***************************************************************************)
(* C23.  As claimed: a resolved section is treated as compressed iff the   *)
(* side table is found and some header record has the section's start in   *)
(* its address field and bit 0x800 set in its flags field; in every other  *)
(* case the section is returned uncompressed.  The code violates it: on a  *)
(* table it cannot index it panics instead of returning the section, and   *)
(* a section resolved under its "__" name is never looked up in the table. *)
(***************************************************************************)
C23_CompressedIffFlaggedRecord ==
    (Returned /\ Resolved) =>
        /\ probe.compressed <=> FlaggedRecord(args.endian, TheSection.start)
        /\ ~probe.compressed => (ret.kind = "Ok" /\ ret.data = RawBytes(TheSection))

(***************************************************************************)
(* C24.  As claimed: whatever the side table holds, a call that resolves a *)
(* section ends with a detected-compression outcome or with the section's  *)
(* raw bytes.  The code violates it: detection unwraps a missing element   *)
(* type, chunks by a width of 0 and indexes records shorter than the       *)
(* fields it reads, each of which panics.                                  *)
(***************************************************************************)
C24_DetectionNeverAborts ==
    (Returned /\ Resolved) =>
        /\ ret.kind # "Panic"
        /\ probe.compressed \/ (ret.kind = "Ok" /\ ret.data = RawBytes(TheSection))

(***************************************************************************)
(* C27.  As claimed: for a section flagged as compressed and shorter than  *)
(* the compression header (3 * address_size), the payload length does not  *)
(* underflow: no read of a wrapped length is requested and the subtraction *)
(* does not overflow.  The code violates it: len - 3 * address_size is     *)
(* computed unguarded.                                                     *)
(***************************************************************************)
C27_PayloadLengthNeverUnderflows ==
    (Returned /\ Resolved /\ probe.compressed /\ TheSection.len < 3 * address_size) =>
        /\ \A i \in 1..Len(reads) : reads[i].len >= 0
        /\ ~(ret.kind = "Panic" /\ ret.line = 142)

(***************************************************************************)
(* C28.  When the compression bit is set and the host's buffer read of the *)
(* payload fails, the call returns success with the section's raw bytes,   *)
(* compression header included, read as any uncompressed section is (and   *)
(* not read at all when the section is empty), whatever the method tag.    *)
(***************************************************************************)
C28_FailedBufferReadFallsThrough ==
    (Returned /\ Resolved /\ BufferReadFailed) =>
        /\ probe.compressed
        /\ ret.kind = "Ok" /\ ret.data = RawBytes(TheSection)
        /\ TheSection.len > 0 =>
              reads[Len(reads)] = [op |-> "read_vec", offset |-> TheSection.start,
                                   len |-> TheSection.len, ok |-> TRUE]

C28_Witness ==
    /\ Returned /\ Resolved /\ probe.compressed /\ BufferReadFailed
    /\ MethodTag \notin {TagOne, TagTwo}
    /\ ret.kind = "Ok" /\ Len(ret.data) > 3 * address_size

\* the bytes of [start, start + len) that the image backs, in order
BackedBytes(s) ==
    LET last == IF s.start + s.len > Len(memory) THEN Len(memory) ELSE s.start + s.len
    IN  [i \in 1..(last - s.start) |-> memory[s.start + i]]

\* the call ended by reading the resolved section as it stands
RawReadIssued ==
    /\ reads # <<>>
    /\ reads[Len(reads)] = [op |-> "read_vec", offset |-> TheSection.start,
                            len |-> TheSection.len, ok |-> TRUE]

(***************************************************************************)
(* C21.  read_vec returns exactly the bytes the read produced, at most len *)
(* of them, with no padding and no error: an uncompressed section whose    *)
(* raw read is short is returned by create_section_reader as success with  *)
(* the bytes of [start, start + len) that the image backs, and no more.    *)
(***************************************************************************)
C21_ShortReadIsTruncated ==
    (Returned /\ Resolved /\ ~probe.compressed /\ RawReadIssued) =>
        /\ ret.kind = "Ok"
        /\ ret.data = BackedBytes(TheSection)
        /\ Len(ret.data) <= TheSection.len

C21_Witness ==
    /\ Returned /\ Resolved /\ ~probe.compressed /\ RawReadIssued
    /\ TheSection.start + TheSection.len > Len(memory)
    /\ ret.kind = "Ok" /\ ret.data # <<>> /\ Len(ret.data) < TheSection.len

\* what the host returned to the analysis_info call
HostInfo == CHOOSE x \in analysis : TRUE

(***************************************************************************)
(* C30.  As claimed: analysis_info returns Err iff the host returns null;  *)
(* otherwise the result carries the host's state and analysis_time, and    *)
(* its active_info has one entry per record the host reported, in order,   *)
(* with the record's analysis_time, update_count and submit_count.  The    *)
(* code violates it: the list it builds is dropped and the result's        *)
(* active_info is always empty.                                            *)
(***************************************************************************)
C30_AnalysisInfoCarriesActiveRecords ==
    Queried("analysis_info") =>
        /\ ret.value.kind = "Err" <=> analysis = {}
        /\ analysis # {} =>
              /\ ret.value.kind = "Ok"
              /\ ret.value.info.state = HostInfo.state
              /\ ret.value.info.analysis_time = HostInfo.analysisTime
              /\ Len(ret.value.info.active_info) = Len(HostInfo.activeInfo)
              /\ \A i \in 1..Len(HostInfo.activeInfo) :
                    /\ ret.value.info.active_info[i].analysis_time
                          = HostInfo.activeInfo[i].analysisTime
                    /\ ret.value.info.active_info[i].update_count
                          = HostInfo.activeInfo[i].updateCount
                    /\ ret.value.info.active_info[i].submit_count
                          = HostInfo.activeInfo[i].submitCount

\* a callback of a registration has just returned to the host
CallbackReturned == pc = "queried" /\ ret.fn \in {"cb_is_valid", "cb_parse_info", "on_event"}

(***************************************************************************)
(* C25.  As claimed: in every callback the binding releases each host      *)
(* handle exactly as many times as it acquired a reference to it during    *)
(* the invocation, so that the host's reference counts are the same after  *)
(* the callback returns as before it was called.  The code violates it:    *)
(* cb_is_valid and cb_parse_info wrap the handles they are given without   *)
(* acquiring a reference, and the wrappers release them.                   *)
(***************************************************************************)
C25_CallbackBalancesReferences ==
    CallbackReturned =>
        /\ ret.value.released = ret.value.acquired
        /\ refcount = ret.value.before

(***************************************************************************)
(* C26.  A registration's box is allocated at every invocation of its      *)
(* callbacks, and a box is released only by the teardown of the            *)
(* registrations (here the end of the process), never while callbacks can  *)
(* still be invoked; every invocation is of a registration made before it. *)
(***************************************************************************)
C26_BoxOutlivesInvocations ==
    /\ CallbackReturned =>
          /\ ret.value.registration \in DOMAIN registry
          /\ ret.value.box = "allocated"
    /\ \A i \in DOMAIN registry : registry[i].box = "freed" => pc = "exited"

C26_Witness ==
    /\ CallbackReturned /\ ret.fn = "on_event"
    /\ Len(registry) = 2 /\ ret.value.registration = 2
    /\ registry[2].box = "allocated"
    /\ refcount["view"] < HostRefs

\* the positions at or after position `from` that have lines
WithLinesFrom(from) ==
    {k \in 1..Len(cursor.lines) : k >= from /\ cursor.lines[k] # <<>>}

\* the least element of a non-empty set of positions
First(S) == CHOOSE k \in S : \A j \in S : k <= j

\* the call before this one, straight before it, was fn and returned lines
CalledAfterLinesOf(fn) == \E c \in ret.value.after : c.fn = fn /\ c.lines # <<>>

====
